---- MODULE Spec2Model ----
(***************************************************************************)
(* vertebrae: a daemon that mirrors watched directories into a backup      *)
(* destination.  src/src/main.rs wires the components and runs the         *)
(* coordinator: startup rescan, the periodic journal flush task, the       *)
(* select! loop over watcher events / rescan timer / ctrl-c, and the       *)
(* shutdown sequence.  The journal, worker, intent and file modules are    *)
(* not among the source files; their behaviour is taken from spec.md.      *)
(***************************************************************************)
EXTENDS Integers, Sequences, FiniteSets, TLC

\* ---------------------------------------------------------------- bounds
\* Watched source paths of the model.
Paths == {"a"}
\* The order in which a rescan walks the watched paths.
PathSeq == <<"a">>
\* Each write to a file yields a new version; at most MaxVer writes per path.
MaxVer == 2
\* Watcher events waiting in the unbounded channel rx.
MaxQueue == 2
\* Events the watcher emits in a run that numbers them.
MaxEvents == 4

\* Direct calls of one routine made in a row when it is examined alone.
MaxCalls == 2
\* Paths an IntentList examined alone is given, and pushes before a drain.
ListPaths == {"a", "b"}
MaxPush == 3

NoEntry == 0
Absent == 0

VARIABLES
    main_pc,        \* where the coordinator (main) is
    interval_pc,    \* where the periodic flush task is
    worker_pc,      \* where the Worker's task is
    cancel,         \* the CancellationToken
    rx,             \* watcher events queued in the unbounded channel
    sending,        \* the message main is handing to send_message
    inbox,          \* messages handed to the Worker, not yet taken
    fs,             \* the watched source files
    dest,           \* the backup destination, per source path
    journal,        \* the in-memory Journal entries: path -> signature
    dirty,          \* the Journal's dirty flag
    snapshot,       \* the Journal snapshot file on disk
    lock,           \* who holds the RwLock around the Journal for writing
    hc,             \* the handle_change call of each caller
    todo,           \* paths the running rescan has still to visit
    sig_raised,     \* tokio's handler has noted a SIGINT that its signal
                    \* driver has not yet passed on to the listeners
    sig_pending,    \* the ctrl_c() future of this loop iteration is ready
    tick_due,       \* rescan_interval has a tick ready
    interrupted,    \* the operator's interrupt was delivered
    handler,        \* tokio's SIGINT handler is installed: some ctrl_c()
                    \* future of this process has been polled
    exit_cause,     \* which break main has just taken out of its loop
    final_flushes,  \* final flushes attempted
    restarted,      \* the process was killed and started again
    call_note,      \* history of the rescan or handle_change call under
                    \* observation: "clean", "op_failed" (a FileHandler
                    \* operation failed), "disturbed" (the walk failed or a
                    \* file changed meanwhile)
    calls,          \* direct calls made so far (the routines called alone)
    first_note,     \* call_note of the first direct call, once it returned
    ilist,          \* an IntentList: its pending intents
    pushed,         \* history: the intents pushed since the list was empty
    drained,        \* what the last drain() yielded
    emitted,        \* history: events the watcher has sent into the channel
    handed,         \* history: number of the last event handed to the Worker
    taken,          \* history: number of the last event the Worker took
    periodic_failed,\* history: a periodic flush failed and none succeeded since
    recording       \* whether this run keeps the four histories above

procs == <<main_pc, interval_pc, worker_pc, cancel>>
chans == <<rx, sending, inbox>>
disk  == <<fs, dest, snapshot>>
jrnl  == <<journal, dirty, lock>>
sigs  == <<sig_raised, sig_pending, interrupted, handler, tick_due>>
hist  == <<exit_cause, final_flushes, restarted, call_note>>
unit  == <<calls, first_note, ilist, pushed, drained>>
trace == <<emitted, handed, taken, periodic_failed, recording>>
vars  == <<procs, chans, disk, jrnl, sigs, hist, hc, todo, unit, trace>>

Callers == {"worker", "rescan"}
EventKinds == {"create", "modify", "remove"}
ChangeKinds == {"create", "update", "delete"}
Idle == [pc |-> "idle", path |-> "-", kind |-> "-", sig |-> 0, buf |-> 0]

\* ------------------------------------------------------------ file system
\* A file's change-detection signature (size + modification time): every write
\* gives a new one.
Sig(f) == IF f.exists THEN f.ver ELSE NoEntry
\* A file's bytes.
Content(f) == IF f.exists THEN f.ver ELSE Absent

\* Mutant: the channel keeps only the newest event.
WatcherCallbackNewest(q, p, k) ==
    <<[path |-> p, kind |-> k, seq |-> emitted']>>

\* The watcher callback: tx.send(WorkerMessage::FilesystemEvent(event)); seq
\* numbers the events in the order of their emission (0 in a run that keeps
\* no history).
WatcherCallback(q, p, k) ==
    Append(q, [path |-> p, kind |-> k, seq |-> emitted'])

\* main is between its start and the spawn of the flush task, or a routine
\* is being called alone: the call is under observation.
Starting == main_pc \in {"startup", "startup_rescan", "spawn",
                         "direct_rescan", "direct_call"}

\* The daemon is a live process.
Running == main_pc \notin {"down", "done", "panicked"}

\* main can still take events from rx: it has not left its loop.
Receiving == main_pc \in {"startup", "startup_rescan", "spawn", "loop", "send", "rescan"}

\* The watcher reports a change; events nobody will receive are left out.
Emit(p, k) ==
    /\ Receiving => Len(rx) < MaxQueue
    /\ emitted' = IF Receiving /\ recording THEN emitted + 1 ELSE emitted
    /\ rx' = IF Receiving THEN WatcherCallback(rx, p, k) ELSE rx
    /\ UNCHANGED <<handed, taken, periodic_failed, recording>>

\* A change under a watched root made by some other program.
FsTouched ==
    call_note' = IF Starting THEN "disturbed" ELSE call_note

FsCreate(p) ==
    /\ ~fs[p].exists /\ fs[p].ver < MaxVer
    /\ fs' = [fs EXCEPT ![p] = [exists |-> TRUE, ver |-> @.ver + 1]]
    /\ Emit(p, "create")
    /\ FsTouched
    /\ UNCHANGED <<unit, procs, sending, inbox, dest, snapshot, jrnl, sigs,
                   exit_cause, final_flushes, restarted, hc, todo>>

FsModify(p) ==
    /\ fs[p].exists /\ fs[p].ver < MaxVer
    /\ fs' = [fs EXCEPT ![p] = [exists |-> TRUE, ver |-> @.ver + 1]]
    /\ Emit(p, "modify")
    /\ FsTouched
    /\ UNCHANGED <<unit, procs, sending, inbox, dest, snapshot, jrnl, sigs,
                   exit_cause, final_flushes, restarted, hc, todo>>

FsRemove(p) ==
    /\ fs[p].exists
    /\ fs' = [fs EXCEPT ![p] = [exists |-> FALSE, ver |-> @.ver]]
    /\ Emit(p, "remove")
    /\ FsTouched
    /\ UNCHANGED <<unit, procs, sending, inbox, dest, snapshot, jrnl, sigs,
                   exit_cause, final_flushes, restarted, hc, todo>>

\* A change of a file's attributes (permissions, access time): the watcher
\* reports it, content and signature stay as they are.  Nothing bounds the
\* number of such events.
FsAttrib(p) ==
    /\ fs[p].exists
    /\ recording => emitted < MaxEvents
    /\ Emit(p, "modify")
    /\ UNCHANGED <<unit, procs, sending, inbox, disk, jrnl, sigs, hist, hc, todo>>

\* ---------------------------------------------------------------- Journal
\* Journal::new(path): the entries of the snapshot file, not dirty.
JournalOpen(snap) == snap

\* Journal::flush(): the full mapping goes to the snapshot file.
JournalFlush(j) == j

\* Journal::upsert / Journal::remove: any mutation sets the dirty flag.
DirtyAfterMutation(d) == TRUE

\* Journal::flush() returned Ok: the flag is cleared.
DirtyAfterFlush(d) == FALSE

\* Mutant: a flush that failed clears the dirty flag all the same.
FlushFailedClears(d) == FALSE

\* Journal::flush() returned Err: nothing was written, the flag stays as it is.
DirtyAfterFailedFlush(d) == d

\* The tasks that hold the RwLock around the Journal for reading: the flush
\* task from journal.read().await until it drops the guard, a rescan while it
\* compares a path with its entry.
Readers ==
    {t \in {"interval", "rescan"} :
        \/ t = "interval" /\ interval_pc = "check"
        \/ t = "rescan" /\ hc["rescan"].pc = "compare"}

\* Mutant: a writer does not wait for the readers.
NoReaders == {}

\* The readers a task asking for the write lock has to wait for.
ReadersAhead == Readers


\* -------------------------------------------------------------- IntentList
\* Mutant: a push for a pending path moves the intent to the end of the list.
PushMovesToEnd(list, intent) ==
    Append(SelectSeq(list, LAMBDA x : x.path # intent.path), intent)

\* IntentList::push: one pending intent per path; a push for a path that is
\* already pending replaces that intent where it stands.
Push(list, intent) ==
    IF \E i \in 1..Len(list) : list[i].path = intent.path
    THEN [i \in 1..Len(list) |->
            IF list[i].path = intent.path THEN intent ELSE list[i]]
    ELSE Append(list, intent)

\* IntentList::drain: the pending intents, in the order first observed.
Drain(list) == list

\* ------------------------------------------------------------ IntentHandler
\* Mutant: handle_change never consults the Journal before executing.
NeverRecorded(intent) == FALSE

\* The Journal already records what the intent would produce.
AlreadyRecorded(intent) ==
    IF intent.kind = "delete"
    THEN journal[intent.path] = NoEntry
    ELSE intent.sig # NoEntry /\ journal[intent.path] = intent.sig

\* handle_change(source_path, change_kind), up to the hand-over to FileHandler:
\* resolve the intent, push it onto the IntentList, drain the list, which is
\* empty again from then on; an intent the Journal already records is dropped,
\* any other goes to FileHandler.  handle_change holds no lock of its own: its
\* callers keep out of each other's way (HandleChangeSerialized below).
Resolve(p, k) ==
    LET intent == [path |-> p, kind |-> k,
                   sig |-> IF k = "delete" THEN NoEntry ELSE Sig(fs[p])]
        first == Head(Drain(Push(ilist, intent)))
    IN  IF AlreadyRecorded(first)
        THEN Idle
        ELSE [pc |-> "exec", path |-> first.path, kind |-> first.kind,
              sig |-> first.sig, buf |-> Content(fs[p])]

\* The bytes a copy may leave at the destination: those read when the copy
\* began or those the source holds when it ends.
CopyOutcomes(c) ==
    {b \in {hc[c].buf, Content(fs[hc[c].path])} : b # Absent}

\* FileHandler ran the intent of caller c and succeeded.
FileHandlerOk(c) ==
    /\ hc[c].pc = "exec"
    /\ IF hc[c].kind = "delete"
       THEN dest' = [dest EXCEPT ![hc[c].path] = Absent]
       ELSE \E b \in CopyOutcomes(c) : dest' = [dest EXCEPT ![hc[c].path] = b]
    /\ hc' = [hc EXCEPT ![c].pc = "record"]
    /\ UNCHANGED <<unit, trace, procs, chans, fs, snapshot, jrnl, sigs, hist, todo>>

\* Mutant: handle_change records the intent although FileHandler failed.
FileHandlerErrRecorded(c) ==
    /\ hc[c].pc = "exec"
    /\ hc' = [hc EXCEPT ![c] = Idle]
    /\ journal' = [journal EXCEPT ![hc[c].path] =
                     IF hc[c].kind = "delete" THEN NoEntry ELSE hc[c].sig]
    /\ dirty' = TRUE
    /\ UNCHANGED <<unit, trace, procs, chans, disk, lock, sigs, hist, todo>>

\* FileHandler failed: nothing is written; handle_change logs the error,
\* leaves the Journal as it is and returns.
FileHandlerErr(c) ==
    /\ hc[c].pc = "exec"
    /\ hc' = [hc EXCEPT ![c] = Idle]
    /\ call_note' = IF c = "rescan" /\ Starting /\ call_note = "clean"
                       THEN "op_failed" ELSE call_note
    /\ UNCHANGED <<unit, trace, procs, chans, disk, jrnl, sigs, exit_cause, final_flushes,
                   restarted, todo>>

\* Journal::upsert / Journal::remove for a finished intent.
Recorded(j, h) ==
    [j EXCEPT ![h.path] = IF h.kind = "delete" THEN NoEntry ELSE h.sig]

\* handle_change asks for the write lock to record the finished operation.
JournalLock(c) ==
    /\ hc[c].pc = "record"
    /\ lock = "none" /\ ReadersAhead = {}
    /\ lock' = c
    /\ hc' = [hc EXCEPT ![c].pc = "write"]
    /\ UNCHANGED <<unit, trace, procs, chans, disk, journal, dirty, sigs, hist,
                   todo>>

\* handle_change records the finished operation and drops the write lock.
JournalRecord(c) ==
    /\ hc[c].pc = "write"
    /\ journal' = Recorded(journal, hc[c])
    /\ dirty' = DirtyAfterMutation(dirty)
    /\ lock' = "none"
    /\ hc' = [hc EXCEPT ![c] = Idle]
    /\ UNCHANGED <<unit, trace, procs, chans, disk, sigs, hist, todo>>

\* ------------------------------------------------------------------ Worker
\* MessageHandler: the change a filesystem event stands for.
Classify(k) ==
    CASE k = "create" -> "create"
      [] k = "modify" -> "update"
      [] k = "remove" -> "delete"

\* The Worker takes the next message and hands it to MessageHandler.
WorkerTake ==
    /\ worker_pc = "running" /\ hc["worker"].pc = "idle"
    /\ inbox # <<>>
    /\ lock = "none"
    /\ inbox' = Tail(inbox)
    /\ hc' = [hc EXCEPT !["worker"] =
                Resolve(Head(inbox).path, Classify(Head(inbox).kind))]
    /\ taken' = Head(inbox).seq
    /\ UNCHANGED <<unit, recording, emitted, handed, periodic_failed, procs, rx, sending, disk, jrnl, sigs, hist, todo>>

\* The Worker's processing reports an unrecoverable error: its task ends.
WorkerFail ==
    /\ worker_pc = "running" /\ hc["worker"].pc = "idle"
    /\ inbox # <<>>
    /\ inbox' = Tail(inbox)
    /\ worker_pc' = "failed"
    /\ taken' = Head(inbox).seq
    /\ UNCHANGED <<unit, recording, emitted, handed, periodic_failed, main_pc, interval_pc, cancel, rx, sending, disk,
                   jrnl, sigs, hist, hc, todo>>

\* The Worker sees the cancellation between two messages and stops.
WorkerShutdown ==
    /\ worker_pc = "running" /\ hc["worker"].pc = "idle"
    /\ cancel
    /\ worker_pc' = "stopped"
    /\ UNCHANGED <<unit, trace, main_pc, interval_pc, cancel, chans, disk, jrnl, sigs, hist,
                   hc, todo>>

\* ------------------------------------------------------------------ Rescan
\* Mutant: the rescan compares existence only, never the signature.
DiscrepancyByExistence(f, entry) ==
    CASE f.exists /\ entry = NoEntry -> "create"
      [] ~f.exists /\ entry # NoEntry -> "delete"
      [] OTHER -> "none"

\* The change a rescan synthesizes for a path: file against Journal entry.
Discrepancy(f, entry) ==
    CASE f.exists /\ entry = NoEntry -> "create"
      [] f.exists /\ entry # NoEntry /\ entry # Sig(f) -> "update"
      [] ~f.exists /\ entry # NoEntry -> "delete"
      [] OTHER -> "none"

Rescanning == main_pc \in {"startup_rescan", "rescan", "direct_rescan"}

\* The rescan takes the read lock to compare its next path with the Journal.
RescanRead ==
    /\ Rescanning /\ hc["rescan"].pc = "idle"
    /\ todo # <<>>
    /\ lock = "none"
    /\ hc' = [hc EXCEPT !["rescan"] = [Idle EXCEPT !.pc = "compare"]]
    /\ UNCHANGED <<unit, trace, procs, chans, disk, jrnl, sigs, hist, todo>>

\* The rescan compares the path, drops the read lock and routes a discrepancy
\* to handle_change.
RescanVisit ==
    /\ Rescanning /\ hc["rescan"].pc = "compare"
    /\ todo # <<>>
    /\ todo' = Tail(todo)
    /\ LET p == Head(todo)
           change == Discrepancy(fs[p], journal[p])
       IN  hc' = [hc EXCEPT !["rescan"] =
                    IF change = "none" THEN Idle ELSE Resolve(p, change)]
    /\ UNCHANGED <<unit, trace, procs, chans, disk, jrnl, sigs, hist>>

\* The walk itself fails: rescan returns Err with the rest unvisited.
RescanErr ==
    /\ Rescanning /\ hc["rescan"].pc = "idle"
    /\ todo # <<>>
    /\ todo' = <<>>
    /\ call_note' = IF Starting THEN "disturbed" ELSE call_note
    /\ UNCHANGED <<unit, trace, procs, chans, disk, jrnl, sigs, exit_cause, final_flushes,
                   restarted, hc>>

RescanReturned == todo = <<>> /\ hc["rescan"].pc = "idle"


\* ------------------------------------------------- periodic flush task
\* interval.tick() wins the select! of the flush task, which takes the read
\* lock: journal.read().await.
IntervalTick ==
    /\ interval_pc = "select"
    /\ lock = "none"
    /\ interval_pc' = "check"
    /\ UNCHANGED <<unit, trace, main_pc, worker_pc, cancel, chans, disk, jrnl, sigs, hist,
                   hc, todo>>

\* Mutant: the task flushes at every tick.
AlwaysFlush(is_dirty) == "want_write"

\* Where the task goes after reading is_dirty() under the read lock.
AfterDirtyCheck(is_dirty) == IF is_dirty THEN "want_write" ELSE "select"

\* is_dirty() under the read lock, drop of the guard: flush only a dirty
\* Journal.
IntervalCheck ==
    /\ interval_pc = "check"
    /\ interval_pc' = AfterDirtyCheck(dirty)
    /\ UNCHANGED <<unit, trace, main_pc, worker_pc, cancel, chans, disk, jrnl, sigs, hist,
                   hc, todo>>

\* journal.write().await of the periodic flush.
IntervalLock ==
    /\ interval_pc = "want_write"
    /\ lock = "none" /\ ReadersAhead = {}
    /\ lock' = "interval"
    /\ interval_pc' = "flushing"
    /\ UNCHANGED <<unit, trace, main_pc, worker_pc, cancel, chans, disk, journal, dirty,
                   sigs, hist, hc, todo>>

\* journal.flush().await returned Ok: snapshot written, dirty cleared.
IntervalFlushOk ==
    /\ interval_pc = "flushing"
    /\ snapshot' = JournalFlush(journal)
    /\ dirty' = DirtyAfterFlush(dirty)
    /\ lock' = "none"
    /\ interval_pc' = "select"
    /\ periodic_failed' = FALSE
    /\ UNCHANGED <<unit, recording, emitted, handed, taken, main_pc, worker_pc, cancel, chans, fs, dest, journal, sigs,
                   hist, hc, todo>>

\* Mutant: a failed flush ends the flush task.
IntervalFlushErrStops ==
    /\ interval_pc = "flushing"
    /\ lock' = "none"
    /\ interval_pc' = "exited"
    /\ periodic_failed' = recording
    /\ UNCHANGED <<unit, recording, emitted, handed, taken, main_pc, worker_pc,
                   cancel, chans, disk, journal, dirty, sigs, hist, hc, todo>>

\* journal.flush().await returned Err: logged, the task goes on.
IntervalFlushErr ==
    /\ interval_pc = "flushing"
    /\ lock' = "none"
    /\ interval_pc' = "select"
    /\ dirty' = DirtyAfterFailedFlush(dirty)
    /\ periodic_failed' = recording
    /\ UNCHANGED <<unit, recording, emitted, handed, taken, main_pc, worker_pc,
                   cancel, chans, disk, journal, sigs, hist, hc, todo>>

\* Mutant: the select! of the flush task prefers the tick to cancelled().
IntervalCancelledTicks ==
    /\ interval_pc = "select"
    /\ cancel
    /\ lock = "none"
    /\ interval_pc' = "check"
    /\ UNCHANGED <<unit, trace, main_pc, worker_pc, cancel, chans, disk, jrnl, sigs, hist,
                   hc, todo>>

\* cancel.cancelled() wins the select!: the task leaves its loop.
IntervalCancelled ==
    /\ interval_pc = "select"
    /\ cancel
    /\ interval_pc' = "exited"
    /\ UNCHANGED <<unit, trace, main_pc, worker_pc, cancel, chans, disk, jrnl, sigs, hist,
                   hc, todo>>

\* ------------------------------------------------------- main: startup
\* Worker::rescan(...) is called at startup.
StartupRescan ==
    /\ main_pc = "startup"
    /\ main_pc' = "startup_rescan"
    /\ todo' = PathSeq
    /\ UNCHANGED <<unit, trace, interval_pc, worker_pc, cancel, chans, disk, jrnl, sigs,
                   hist, hc>>

\* The startup rescan returned (Ok, or Err which is only logged).
StartupRescanReturns ==
    /\ main_pc = "startup_rescan"
    /\ RescanReturned
    /\ main_pc' = "spawn"
    /\ UNCHANGED <<unit, trace, interval_pc, worker_pc, cancel, chans, disk, jrnl, sigs,
                   hist, hc, todo>>

\* tokio::task::spawn of the flush task; main enters its loop.
SpawnInterval ==
    /\ main_pc = "spawn"
    /\ interval_pc' = "select"
    /\ main_pc' = "loop"
    /\ call_note' = "clean"
    /\ UNCHANGED <<unit, trace, worker_pc, cancel, chans, disk, jrnl, sigs, exit_cause,
                   final_flushes, restarted, hc, todo>>

\* ---------------------------------------------------------- main: loop
\* main leaves a select! iteration: the ctrl_c() future of the iteration is
\* dropped with whatever it had been notified of.
LeaveSelect(next) ==
    /\ main_pc' = next
    /\ sig_pending' = FALSE

Break(cause) ==
    /\ LeaveSelect("shutdown")
    /\ exit_cause' = cause

\* select! polls its branches from a random one on and stops at the first that
\* is ready: the ctrl_c() of line 166 was polled before the winning branch, or
\* it was not.  Its first poll installs the SIGINT handler, for good.
PollCtrlC == handler' \in {handler, TRUE}

\* All three branches were polled and none is ready: main is suspended in
\* select!, the first one included (the first tick of rescan_interval is not
\* ready at its first poll).
SelectPending ==
    /\ main_pc = "loop"
    /\ rx = <<>>
    /\ ~handler
    /\ handler' = TRUE
    /\ UNCHANGED <<unit, trace, procs, chans, disk, jrnl, sig_raised,
                   sig_pending, interrupted, tick_due, hist, hc, todo>>

\* Mutant: main takes the newest waiting event first.
RecvMessageNewest ==
    /\ main_pc = "loop"
    /\ rx # <<>>
    /\ sending' = <<rx[Len(rx)]>>
    /\ rx' = SubSeq(rx, 1, Len(rx) - 1)
    /\ LeaveSelect("send")
    /\ PollCtrlC
    /\ UNCHANGED <<unit, trace, interval_pc, worker_pc, cancel, inbox, disk, jrnl,
                   sig_raised, interrupted, tick_due, hist, hc, todo>>

\* rx.recv() yields Some(msg): main calls worker.send_message(msg).
RecvMessage ==
    /\ main_pc = "loop"
    /\ rx # <<>>
    /\ sending' = <<Head(rx)>>
    /\ rx' = Tail(rx)
    /\ LeaveSelect("send")
    /\ PollCtrlC
    /\ UNCHANGED <<unit, trace, interval_pc, worker_pc, cancel, inbox, disk, jrnl,
                   sig_raised, interrupted, tick_due, hist, hc, todo>>

\* rx.recv() yields None: the watcher's handler, and with it tx, was dropped
\* and the queue is empty.
RecvClosed ==
    /\ main_pc = "loop"
    /\ rx = <<>>
    /\ Break("closed")
    /\ PollCtrlC
    /\ UNCHANGED <<unit, trace, interval_pc, worker_pc, cancel, chans, disk, jrnl,
                   sig_raised, interrupted, tick_due, final_flushes, restarted, call_note, hc, todo>>

\* Worker::send_message hands the message to the actor: it is in the
\* Worker's inbox.
SendMessage ==
    /\ main_pc = "send"
    /\ sending # <<>>
    /\ worker_pc = "running"
    /\ inbox' = inbox \o sending
    /\ sending' = <<>>
    /\ handed' = Head(sending).seq
    /\ UNCHANGED <<unit, recording, emitted, taken, periodic_failed, procs, rx,
                   disk, jrnl, sigs, hist, hc, todo>>

\* Mutant: send_message returns as soon as the message is in the inbox.
HandedOver == sending = <<>>

\* The actor has processed the message handed to it, through the Journal
\* update: what send_message waits for before it reports to its caller.
Handled ==
    /\ sending = <<>> /\ inbox = <<>>
    /\ hc["worker"].pc = "idle"

\* send_message returned Ok: the Worker has handled the message.
SendMessageOk ==
    /\ main_pc = "send"
    /\ worker_pc = "running"
    /\ Handled
    /\ main_pc' = "loop"
    /\ UNCHANGED <<unit, trace, interval_pc, worker_pc, cancel, chans, disk,
                   jrnl, sigs, hist, hc, todo>>

\* Mutant: the error of send_message is logged and the loop goes on.
SendMessageErrSwallowed ==
    /\ main_pc = "send"
    /\ worker_pc = "failed"
    /\ sending' = <<>>
    /\ main_pc' = "loop"
    /\ UNCHANGED <<unit, trace, interval_pc, worker_pc, cancel, rx, inbox, disk,
                   jrnl, sigs, hist, hc, todo>>

\* send_message returned Err: logged, break.
SendMessageErr ==
    /\ main_pc = "send"
    /\ worker_pc = "failed"
    /\ sending' = <<>>
    /\ Break("send_err")
    /\ UNCHANGED <<unit, trace, interval_pc, worker_pc, cancel, rx, inbox, disk,
                   jrnl, sig_raised, interrupted, handler, tick_due, final_flushes, restarted, call_note,
                   hc, todo>>

\* Mutant: a select! that is biased: it polls rx.recv() first and comes to
\* rescan_interval.tick() only when no event waits.
RescanTickAfterRecv ==
    /\ main_pc = "loop"
    /\ rx = <<>>
    /\ tick_due
    /\ tick_due' = FALSE
    /\ todo' = PathSeq
    /\ LeaveSelect("rescan")
    /\ PollCtrlC
    /\ UNCHANGED <<unit, trace, interval_pc, worker_pc, cancel, chans, disk, jrnl,
                   sig_raised, interrupted, hist, hc>>

\* rescan_interval.tick() is ready and wins: main calls Worker::rescan
\* inline.
RescanTick ==
    /\ main_pc = "loop"
    /\ todo' = PathSeq
    /\ tick_due
    /\ tick_due' = FALSE
    /\ LeaveSelect("rescan")
    /\ PollCtrlC
    /\ UNCHANGED <<unit, trace, interval_pc, worker_pc, cancel, chans, disk, jrnl,
                   sig_raised, interrupted, hist, hc>>

\* The periodic rescan returned (Ok, or Err which is only logged).
RescanReturns ==
    /\ main_pc = "rescan"
    /\ RescanReturned
    /\ main_pc' = "loop"
    /\ UNCHANGED <<unit, trace, interval_pc, worker_pc, cancel, chans, disk, jrnl, sigs,
                   hist, hc, todo>>

\* tokio::signal::ctrl_c() of this iteration completes: break.
CtrlC ==
    /\ main_pc = "loop"
    /\ sig_pending
    /\ Break("ctrl_c")
    /\ UNCHANGED <<unit, trace, interval_pc, worker_pc, cancel, chans, disk, jrnl,
                   sig_raised, interrupted, handler, tick_due, final_flushes, restarted, call_note, hc, todo>>

\* ------------------------------------------------------ main: shutdown
\* cancel.cancel()
Cancel ==
    /\ main_pc = "shutdown"
    /\ cancel' = TRUE
    /\ main_pc' = "join_interval"
    /\ exit_cause' = "none"
    /\ UNCHANGED <<unit, trace, interval_pc, worker_pc, chans, disk, jrnl, sigs,
                   final_flushes, restarted, call_note, hc, todo>>

\* Mutant: main goes on without waiting for the flush task to end.
JoinIntervalNoWait ==
    /\ main_pc = "join_interval"
    /\ main_pc' = "join_worker"
    /\ UNCHANGED <<unit, trace, interval_pc, worker_pc, cancel, chans, disk, jrnl, sigs,
                   hist, hc, todo>>

\* interval_handle.await returns once the flush task has ended.
JoinInterval ==
    /\ main_pc = "join_interval"
    /\ interval_pc = "exited"
    /\ main_pc' = "join_worker"
    /\ UNCHANGED <<unit, trace, interval_pc, worker_pc, cancel, chans, disk, jrnl, sigs,
                   hist, hc, todo>>

\* Mutant: main goes on without waiting for the Worker's task to end.
JoinWorkerNoWait ==
    /\ main_pc = "join_worker"
    /\ main_pc' = "final_lock"
    /\ UNCHANGED <<unit, trace, interval_pc, worker_pc, cancel, chans, disk, jrnl, sigs,
                   hist, hc, todo>>

\* worker.wait_for_shutdown().await returns once the Worker's task has ended.
JoinWorker ==
    /\ main_pc = "join_worker"
    /\ worker_pc \in {"stopped", "failed"}
    /\ main_pc' = "final_lock"
    /\ UNCHANGED <<unit, trace, interval_pc, worker_pc, cancel, chans, disk, jrnl, sigs,
                   hist, hc, todo>>

\* Mutant: the final flush is skipped when the Journal is not dirty.
FinalFlushIfDirty(is_dirty) == is_dirty

\* The final flush is attempted whatever is_dirty() says.
FinalFlushWanted(is_dirty) == TRUE

\* journal.write().await, then flush() is called.
FinalLock ==
    /\ main_pc = "final_lock"
    /\ lock = "none" /\ ReadersAhead = {}
    /\ IF FinalFlushWanted(dirty)
       THEN /\ lock' = "final"
            /\ main_pc' = "final_flush"
            /\ final_flushes' = final_flushes + 1
       ELSE /\ main_pc' = "done"
            /\ UNCHANGED <<lock, final_flushes>>
    /\ UNCHANGED <<unit, trace, interval_pc, worker_pc, cancel, chans, disk, journal, dirty,
                   sigs, exit_cause, restarted, call_note, hc, todo>>

\* The final flush returned Ok(flushed): main returns Ok(()).
FinalFlushOk ==
    /\ main_pc = "final_flush"
    /\ snapshot' = JournalFlush(journal)
    /\ dirty' = DirtyAfterFlush(dirty)
    /\ lock' = "none"
    /\ main_pc' = "done"
    /\ periodic_failed' = FALSE
    /\ UNCHANGED <<unit, recording, emitted, handed, taken, interval_pc, worker_pc, cancel, chans, fs, dest, journal,
                   sigs, hist, hc, todo>>

\* Mutant: a failed final flush is logged and main returns Ok(()).
FinalFlushErrLogged ==
    /\ main_pc = "final_flush"
    /\ lock' = "none"
    /\ main_pc' = "done"
    /\ UNCHANGED <<unit, trace, interval_pc, worker_pc, cancel, chans, disk, journal, dirty,
                   sigs, hist, hc, todo>>

\* The final flush returned Err: expect() panics.
FinalFlushErr ==
    /\ main_pc = "final_flush"
    /\ lock' = "none"
    /\ dirty' = DirtyAfterFailedFlush(dirty)
    /\ main_pc' = "panicked"
    /\ UNCHANGED <<unit, trace, interval_pc, worker_pc, cancel, chans, disk,
                   journal, sigs, hist, hc, todo>>

\* ------------------------------------------------------------ environment
\* The process ends at once, by a signal it does not handle: all that remains
\* is what is on disk.
Terminated ==
    /\ main_pc' = "down"
    /\ interval_pc' = "unspawned"
    /\ worker_pc' = "running"
    /\ cancel' = FALSE
    /\ rx' = <<>> /\ sending' = <<>> /\ inbox' = <<>>
    /\ journal' = [p \in Paths |-> NoEntry]
    /\ dirty' = FALSE
    /\ lock' = "none"
    /\ hc' = [c \in Callers |-> Idle]
    /\ todo' = <<>>
    /\ sig_raised' = FALSE /\ sig_pending' = FALSE
    /\ handler' = FALSE /\ tick_due' = FALSE
    /\ exit_cause' = "none"
    /\ final_flushes' = 0
    /\ call_note' = "clean"
    /\ emitted' = 0 /\ handed' = 0 /\ taken' = 0
    /\ periodic_failed' = FALSE
    /\ UNCHANGED <<unit, disk, restarted, recording>>

\* main is in its loop: in select!, or in the send_message or the rescan of
\* one of its branches.
InLoop == main_pc \in {"loop", "send", "rescan"}

\* main is in select!: the ctrl_c() future of this iteration is alive.
Listening == main_pc = "loop"

\* A SIGINT reaches the process.  Until a ctrl_c() future has been polled the
\* signal has its default disposition and ends the process.  From then on
\* tokio's handler takes it and only notes it; the listeners hear of it when
\* the signal driver runs next (SignalBroadcast).
SignalDelivered ==
    /\ Running
    /\ IF handler
       THEN /\ sig_raised' = TRUE
            /\ UNCHANGED <<unit, trace, procs, chans, disk, jrnl, sig_pending,
                           handler, tick_due, hist, hc, todo>>
       ELSE Terminated

\* tokio's signal driver passes a noted SIGINT on: the ctrl_c() future that is
\* alive at that moment, the one of the select! main is in, becomes ready.  A
\* ctrl_c() created later does not hear of it: when main is inside
\* send_message or a rescan at that moment, the signal is lost.
SignalBroadcast ==
    /\ sig_raised
    /\ sig_raised' = FALSE
    /\ sig_pending' = (sig_pending \/ Listening)
    /\ UNCHANGED <<unit, trace, procs, chans, disk, jrnl, interrupted, handler,
                   tick_due, hist, hc, todo>>

\* The period of rescan_interval has passed: its next tick is ready.
TimerFires ==
    /\ InLoop
    /\ ~tick_due
    /\ tick_due' = TRUE
    /\ UNCHANGED <<unit, trace, procs, chans, disk, jrnl, sig_raised,
                   sig_pending, interrupted, handler, hist, hc, todo>>

\* The operator interrupts the daemon.
Interrupt ==
    /\ SignalDelivered
    /\ UNCHANGED interrupted

\* The operator interrupts the daemon once.
SingleInterrupt ==
    /\ ~interrupted
    /\ SignalDelivered
    /\ interrupted' = TRUE

\* The process is killed (SIGKILL, power loss).
Kill ==
    /\ Running
    /\ Terminated
    /\ interrupted' = FALSE

\* The daemon is started again: main runs up to the startup rescan.
Restart ==
    /\ main_pc = "down"
    /\ main_pc' = "startup"
    /\ journal' = JournalOpen(snapshot)
    /\ restarted' = TRUE
    /\ UNCHANGED <<unit, trace, interval_pc, worker_pc, cancel, chans, disk, dirty, lock,
                   sigs, exit_cause, final_flushes, call_note, hc, todo>>

\* ---------------------------------------------------------------- system
\* main has built its components and installed the watcher (lines 42-106).
Started ==
    /\ main_pc = "startup"
    /\ interval_pc = "unspawned"
    /\ worker_pc = "running"
    /\ cancel = FALSE
    /\ rx = <<>> /\ sending = <<>> /\ inbox = <<>>
    /\ fs \in [Paths -> {[exists |-> FALSE, ver |-> 0], [exists |-> TRUE, ver |-> 1]}]
    /\ dest = [p \in Paths |-> Absent]
    /\ snapshot = [p \in Paths |-> NoEntry]
    /\ journal = JournalOpen(snapshot)
    /\ dirty = FALSE
    /\ lock = "none"
    /\ hc = [c \in Callers |-> Idle]
    /\ todo = <<>>
    /\ sig_raised = FALSE /\ sig_pending = FALSE /\ interrupted = FALSE
    /\ tick_due = FALSE
    /\ handler = FALSE
    /\ exit_cause = "none"
    /\ final_flushes = 0
    /\ restarted = FALSE
    /\ call_note = "clean"
    /\ calls = <<>> /\ first_note = "none"
    /\ ilist = <<>> /\ pushed = <<>> /\ drained = <<>>
    /\ emitted = 0 /\ handed = 0 /\ taken = 0
    /\ periodic_failed = FALSE

Init == Started /\ recording = FALSE

\* Every step but an interrupt, a kill of the process and its restart.
Daemon ==
    \/ \E p \in Paths : FsCreate(p)
    \/ \E p \in Paths : FsModify(p)
    \/ \E p \in Paths : FsRemove(p)
    \/ \E p \in Paths : FsAttrib(p)
    \/ \E c \in Callers : FileHandlerOk(c)
    \/ \E c \in Callers : FileHandlerErr(c)
    \/ \E c \in Callers : JournalLock(c)
    \/ \E c \in Callers : JournalRecord(c)
    \/ WorkerTake \/ WorkerFail \/ WorkerShutdown
    \/ RescanRead \/ RescanVisit \/ RescanErr
    \/ IntervalTick \/ IntervalCheck \/ IntervalLock
    \/ IntervalFlushOk \/ IntervalFlushErr \/ IntervalCancelled
    \/ StartupRescan \/ StartupRescanReturns \/ SpawnInterval
    \/ RecvMessage \/ RecvClosed
    \/ SendMessage \/ SendMessageOk \/ SendMessageErr
    \/ SelectPending \/ RescanTick \/ RescanReturns \/ CtrlC
    \/ SignalBroadcast \/ TimerFires
    \/ Cancel \/ JoinInterval \/ JoinWorker
    \/ FinalLock \/ FinalFlushOk \/ FinalFlushErr

Next == Daemon \/ Interrupt \/ Kill \/ Restart

Spec == Init /\ [][Next]_vars


\* The daemon between start and exit, sent at most one SIGINT and no other
\* signal,
\* with the scheduling tokio gives: a task that can run does run, a FileHandler
\* operation ends, the RwLock and select! do not starve a waiter forever.
NextLive == Daemon \/ SingleInterrupt

Fairness ==
    /\ WF_vars(StartupRescan) /\ WF_vars(StartupRescanReturns)
    /\ WF_vars(SpawnInterval)
    /\ SF_vars(RescanRead) /\ WF_vars(RescanVisit \/ RescanErr)
    /\ WF_vars(RescanReturns)
    /\ WF_vars(SendMessage) /\ WF_vars(SendMessageOk) /\ WF_vars(SendMessageErr)
    /\ WF_vars(SignalBroadcast)
    /\ SF_vars(RecvMessage) /\ SF_vars(RescanTick) /\ SF_vars(CtrlC)
    /\ WF_vars(Cancel) /\ WF_vars(JoinInterval) /\ WF_vars(JoinWorker)
    /\ SF_vars(FinalLock) /\ WF_vars(FinalFlushOk \/ FinalFlushErr)
    /\ WF_vars(WorkerTake \/ WorkerFail) /\ WF_vars(WorkerShutdown)
    /\ WF_vars(IntervalCheck) /\ SF_vars(IntervalLock)
    /\ WF_vars(IntervalFlushOk \/ IntervalFlushErr)
    /\ SF_vars(IntervalCancelled)
    /\ \A c \in Callers :
        /\ WF_vars(FileHandlerOk(c) \/ FileHandlerErr(c))
        /\ SF_vars(JournalLock(c)) /\ WF_vars(JournalRecord(c))

LiveSpec == Init /\ [][NextLive]_vars /\ Fairness

\* The steps main takes on its own between two select!s, the inline rescan
\* included, and those of them that wait for the RwLock.
MainStep ==
    \/ StartupRescan \/ StartupRescanReturns \/ SpawnInterval
    \/ SendMessage \/ SendMessageOk \/ SendMessageErr
    \/ RescanVisit \/ RescanReturns
    \/ FileHandlerOk("rescan") \/ FileHandlerErr("rescan")
    \/ JournalRecord("rescan")

MainLockStep == RescanRead \/ JournalLock("rescan")

\* The steps of the Worker's task.
WorkerStep ==
    \/ FileHandlerOk("worker") \/ FileHandlerErr("worker")
    \/ JournalRecord("worker")

WorkerLockStep == WorkerTake \/ WorkerFail \/ JournalLock("worker")

\* The steps of the flush task inside one pass of its loop.
IntervalStep == IntervalCheck \/ IntervalFlushOk \/ IntervalFlushErr

\* What the flush task needs to end: its own steps are taken, the write lock
\* is granted to a waiter in the end, and a select! with cancelled() ready
\* does not pick the tick forever.
FlushTaskFairness ==
    /\ WF_vars(IntervalStep)
    /\ SF_vars(IntervalLock)
    /\ SF_vars(IntervalCancelled)

FlushTaskSpec == Init /\ [][NextLive]_vars /\ FlushTaskFairness

\* What the shutdown sequence needs to reach the final flush: main takes its
\* steps, the flush task ends, the Worker sees the cancellation.
ShutdownFairness ==
    /\ WF_vars(Cancel \/ JoinInterval \/ JoinWorker \/ FinalLock)
    /\ WF_vars(WorkerShutdown)
    /\ FlushTaskFairness

ShutdownSpec == Init /\ [][NextLive]_vars /\ ShutdownFairness

\* A branch of main's select! that is ready completes it.
SelectStep == RecvMessage \/ RescanTick \/ CtrlC

\* What main needs to come back to its select! and to leave it: every task
\* takes its steps, the RwLock starves no waiter, a select! with a ready
\* branch completes, and select!, which starts its polls at a random branch,
\* does not pass over a tick of rescan_interval that is ready again and again
\* for ever.  Nothing is assumed of the watcher: events may keep arriving.
LoopFairness ==
    /\ WF_vars(MainStep) /\ SF_vars(MainLockStep)
    /\ WF_vars(WorkerStep) /\ SF_vars(WorkerLockStep)
    /\ WF_vars(IntervalStep) /\ SF_vars(IntervalLock)
    /\ WF_vars(SelectStep)
    /\ SF_vars(RescanTick)

LoopSpec == Init /\ [][NextLive]_vars /\ LoopFairness

\* One run of the daemon from start to exit, with its history kept: the
\* events numbered as emitted, the hand-overs, the flush failures.
TraceInit == Started /\ recording = TRUE

TraceNext == Daemon \/ Interrupt

TraceSpec == TraceInit /\ [][TraceNext]_vars

\* ------------------------------------------- the routines called alone
\* Nothing runs and nothing is queued: only the caller below acts.
Quiescent ==
    /\ main_pc = "direct"
    /\ interval_pc = "unspawned"
    /\ worker_pc = "running"
    /\ cancel = FALSE
    /\ rx = <<>> /\ sending = <<>> /\ inbox = <<>>
    /\ dirty = FALSE
    /\ lock = "none"
    /\ hc = [c \in Callers |-> Idle]
    /\ todo = <<>>
    /\ sig_raised = FALSE /\ sig_pending = FALSE /\ interrupted = FALSE
    /\ tick_due = FALSE
    /\ handler = FALSE
    /\ exit_cause = "none"
    /\ final_flushes = 0
    /\ restarted = FALSE
    /\ call_note = "clean"
    /\ calls = <<>> /\ first_note = "none"
    /\ ilist = <<>> /\ pushed = <<>> /\ drained = <<>>
    /\ emitted = 0 /\ handed = 0 /\ taken = 0
    /\ periodic_failed = FALSE
    /\ recording = FALSE

\* A file that exists has been written at least once.
FileStates ==
    {f \in [exists : BOOLEAN, ver : 0..MaxVer] : f.exists => f.ver > 0}

\* An IntentHandler over any source tree, destination and loaded Journal, none
\* of them ahead of the source's writes.
DirectInit ==
    /\ Quiescent
    /\ fs \in [Paths -> FileStates]
    /\ dest \in [Paths -> 0..MaxVer]
    /\ snapshot \in [Paths -> 0..MaxVer]
    /\ \A p \in Paths : dest[p] <= fs[p].ver /\ snapshot[p] <= fs[p].ver
    /\ journal = JournalOpen(snapshot)

\* Worker::rescan(intent_handler) called directly; the source tree is left
\* alone between and during the calls.
DirectRescan ==
    /\ main_pc = "direct"
    /\ Len(calls) < MaxCalls
    /\ \A i \in 1..Len(calls) : calls[i].op = "rescan"
    /\ main_pc' = "direct_rescan"
    /\ todo' = PathSeq
    /\ calls' = Append(calls, [op |-> "rescan", path |-> "-", kind |-> "-",
                               ran |-> FALSE])
    /\ UNCHANGED <<trace, interval_pc, worker_pc, cancel, chans, disk, jrnl, sigs,
                   hist, hc, first_note, ilist, pushed, drained>>

\* IntentHandler::handle_change(p, k) called directly; ran tells whether the
\* call went on to FileHandler.
DirectHandleChange(p, k) ==
    /\ main_pc = "direct"
    /\ Len(calls) < MaxCalls
    /\ \A i \in 1..Len(calls) : calls[i].op = "handle_change"
    /\ lock = "none"
    /\ main_pc' = "direct_call"
    /\ hc' = [hc EXCEPT !["rescan"] = Resolve(p, k)]
    /\ calls' = Append(calls, [op |-> "handle_change", path |-> p, kind |-> k,
                               ran |-> Resolve(p, k).pc = "exec"])
    /\ UNCHANGED <<trace, interval_pc, worker_pc, cancel, chans, disk, jrnl, sigs,
                   hist, todo, first_note, ilist, pushed, drained>>

\* The direct call returns; what the first call met is kept.
DirectReturns ==
    /\ main_pc \in {"direct_rescan", "direct_call"}
    /\ RescanReturned
    /\ main_pc' = "direct"
    /\ first_note' = IF Len(calls) = 1 THEN call_note ELSE first_note
    /\ call_note' = "clean"
    /\ UNCHANGED <<trace, interval_pc, worker_pc, cancel, chans, disk, jrnl, sigs,
                   exit_cause, final_flushes, restarted, hc, todo, calls,
                   ilist, pushed, drained>>

DirectNext ==
    \/ DirectRescan
    \/ \E p \in Paths, k \in ChangeKinds : DirectHandleChange(p, k)
    \/ DirectReturns
    \/ RescanRead \/ RescanVisit \/ RescanErr
    \/ FileHandlerOk("rescan")
    \/ FileHandlerErr("rescan")
    \/ JournalLock("rescan")
    \/ JournalRecord("rescan")

DirectSpec == DirectInit /\ [][DirectNext]_vars

\* The intents an IntentList examined alone is given.
ListIntents ==
    {[path |-> p, kind |-> k, sig |-> IF k = "delete" THEN NoEntry ELSE 1] :
        p \in ListPaths, k \in ChangeKinds}

ListInit ==
    /\ Quiescent
    /\ fs = [p \in Paths |-> [exists |-> FALSE, ver |-> 0]]
    /\ dest = [p \in Paths |-> Absent]
    /\ snapshot = [p \in Paths |-> NoEntry]
    /\ journal = JournalOpen(snapshot)

\* IntentList::push(intent).
ListPush(intent) ==
    /\ drained = <<>>
    /\ Len(pushed) < MaxPush
    /\ ilist' = Push(ilist, intent)
    /\ pushed' = Append(pushed, intent)
    /\ UNCHANGED <<trace, procs, chans, disk, jrnl, sigs, hist, hc, todo, calls,
                   first_note, drained>>

\* IntentList::drain(): the pending intents are handed out, the list is empty.
ListDrain ==
    /\ drained = <<>>
    /\ ilist # <<>>
    /\ drained' = Drain(ilist)
    /\ ilist' = <<>>
    /\ UNCHANGED <<trace, procs, chans, disk, jrnl, sigs, hist, hc, todo, calls,
                   first_note, pushed>>

\* The drained intents have been executed; the list is used again.
ListReuse ==
    /\ drained # <<>>
    /\ drained' = <<>>
    /\ pushed' = <<>>
    /\ UNCHANGED <<trace, procs, chans, disk, jrnl, sigs, hist, hc, todo, calls,
                   first_note, ilist>>

ListNext ==
    \/ \E intent \in ListIntents : ListPush(intent)
    \/ ListDrain
    \/ ListReuse

ListSpec == ListInit /\ [][ListNext]_vars

\* ------------------------------------------------------------------ claims
LeftLoop == main_pc \in {"shutdown", "join_interval", "join_worker",
                         "final_lock", "final_flush", "done", "panicked"}

\* C1: at shutdown main leaves its loop, then signals cancellation, then joins
\* the flush task, then joins the Worker, and only then starts the final flush:
\* the final flush never starts while the flush task or the Worker still runs.
ShutdownOrder ==
    /\ cancel => LeftLoop /\ main_pc # "shutdown"
    /\ main_pc \in {"join_interval", "join_worker", "final_lock", "final_flush",
                    "done", "panicked"} => cancel
    /\ main_pc \in {"join_worker", "final_lock", "final_flush", "done", "panicked"}
         => interval_pc = "exited"
    /\ main_pc \in {"final_lock", "final_flush", "done", "panicked"}
         => worker_pc \in {"stopped", "failed"} /\ hc["worker"].pc = "idle"
    /\ (final_flushes > 0 \/ lock = "final")
         => main_pc \in {"final_flush", "done", "panicked"}

\* C1 witness: the final flush of a dirty Journal is running.
ShutdownOrderWitness ==
    main_pc = "final_flush" /\ lock = "final" /\ dirty

\* The callers that are inside handle_change.
InHandleChange == {c \in Callers : hc[c].pc \in {"exec", "record", "write"}}

InterruptLeadsToShutdown == (interrupted /\ InLoop) ~> LeftLoop


\* A step of the shutdown sequence or of a task it waits for.
ShutdownStep ==
    \/ Cancel \/ JoinInterval \/ JoinWorker \/ FinalLock
    \/ IntervalCheck \/ IntervalLock \/ IntervalFlushOk \/ IntervalCancelled
    \/ WorkerShutdown

\* C2: whatever makes main leave its loop (interrupt, send_message error, the
\* channel closing), one final Journal flush is attempted afterwards, exactly
\* one, and whether or not the Journal is dirty: once main has left the loop
\* the final flush is eventually called (unless a signal ends the process
\* first); no flush is counted before the final one starts and one is counted
\* from then on; until then the shutdown sequence can always take a further
\* step.
FinalFlushOnce ==
    /\ LeftLoop ~> (final_flushes = 1 \/ main_pc = "down")
    /\ [](final_flushes <= 1)
    /\ [](main_pc \in {"final_flush", "done", "panicked"} <=> final_flushes = 1)
    /\ []((LeftLoop /\ final_flushes = 0) => ENABLED ShutdownStep)
    /\ [](main_pc = "final_lock" => lock = "none")

\* C2 witness: the final flush is under way on a Journal that is not dirty.
FinalFlushOnceWitness ==
    main_pc = "final_flush" /\ final_flushes = 1 /\ ~dirty


\* The process was not killed or restarted in this step.
SameProcess == main_pc # "down" /\ main_pc' # "down"

\* C4: a Journal entry is upserted or removed only after a FileHandler
\* operation for its path has succeeded; when the operation fails,
\* handle_change leaves the Journal entries and the dirty flag as they are and
\* every task of the daemon goes on.
RecordAfterSuccess ==
    [][SameProcess =>
        /\ \A p \in Paths : journal'[p] # journal[p] =>
              \E c \in Callers :
                  /\ hc[c].pc = "write" /\ hc[c].path = p
                  /\ hc'[c].pc = "idle"
        /\ \A c \in Callers : (hc'[c].pc = "write" /\ hc[c].pc # "write") =>
              hc[c].pc = "record" /\ hc'[c].path = hc[c].path
        /\ \A c \in Callers : (hc'[c].pc = "record" /\ hc[c].pc # "record") =>
              /\ hc[c].pc = "exec" /\ hc'[c].path = hc[c].path
              /\ (dest'[hc[c].path] = Absent) <=> (hc[c].kind = "delete")
        /\ \A c \in Callers : (hc[c].pc = "exec" /\ hc'[c].pc = "idle") =>
              /\ journal' = journal /\ dirty' = dirty
              /\ UNCHANGED <<procs, dest, snapshot>>
      ]_vars

\* C4 witness: the startup rescan's copy of an existing file failed and the
\* Journal has no entry for it.
RecordAfterSuccessWitness ==
    /\ main_pc = "spawn" /\ call_note = "op_failed"
    /\ \E p \in Paths : fs[p].exists /\ journal[p] = NoEntry /\ ~dirty

NoFlushWhenClean ==
    [][SameProcess =>
        /\ (interval_pc = "check" /\ interval_pc' # "check" /\ ~dirty) =>
              /\ interval_pc' = "select"
              /\ UNCHANGED <<snapshot, lock, journal, dirty>>
        /\ (interval_pc' = "want_write" /\ interval_pc # "want_write") => dirty
        /\ (interval_pc' = "flushing" /\ interval_pc # "flushing") =>
              interval_pc = "want_write"
        /\ snapshot' # snapshot =>
              interval_pc = "flushing" \/ main_pc = "final_flush"
      ]_vars

\* C10 witness: the timer has fired while the Journal, flushed before, holds
\* an entry and is not dirty.
NoFlushWhenCleanWitness ==
    /\ interval_pc = "check" /\ ~dirty /\ lock = "none"
    /\ \E p \in Paths : journal[p] # NoEntry /\ snapshot[p] = journal[p]

\* The two direct calls were handle_change with the same path and kind (the
\* source is untouched between them, hence the same signature).
SameChangeTwice(cs) ==
    /\ Len(cs) = 2
    /\ cs[1].op = "handle_change" /\ cs[2].op = "handle_change"
    /\ cs[1].path = cs[2].path /\ cs[1].kind = cs[2].kind

FirstPush(h, p) ==
    CHOOSE i \in 1..Len(h) :
        h[i].path = p /\ \A j \in 1..(i - 1) : h[j].path # p
\* The last intent pushed for path p in history h.
LastPushed(h, p) ==
    h[CHOOSE i \in 1..Len(h) :
        h[i].path = p /\ \A j \in (i + 1)..Len(h) : h[j].path # p]

\* What is pending before a drain, what was handed out after it.
Coalesced == IF drained = <<>> THEN ilist ELSE drained

\* C8: an IntentList holds at most one pending intent per path; a push for a
\* path already pending replaces the earlier intent, so the last kind pushed
\* wins (a create followed by a delete drains as one delete); drain yields the
\* intents in the order the paths were first observed and empties the list.
IntentListCoalesces ==
    /\ \A i, j \in 1..Len(Coalesced) :
          i # j => Coalesced[i].path # Coalesced[j].path
    /\ \A i \in 1..Len(pushed) : \E k \in 1..Len(Coalesced) :
          Coalesced[k] = LastPushed(pushed, pushed[i].path)
    /\ \A k \in 1..Len(Coalesced) : \E i \in 1..Len(pushed) :
          pushed[i].path = Coalesced[k].path
    /\ \A k, l \in 1..Len(Coalesced) :
          k < l => FirstPush(pushed, Coalesced[k].path)
                     < FirstPush(pushed, Coalesced[l].path)
    /\ drained # <<>> => ilist = <<>>

IntentListCoalescesWitness ==
    /\ Len(pushed) = 3
    /\ pushed[1].path = "a" /\ pushed[1].kind = "create"
    /\ pushed[2].path = "b"
    /\ pushed[3].path = "a" /\ pushed[3].kind = "delete"
    /\ Len(drained) = 2
    /\ drained[1].path = "a" /\ drained[1].kind = "delete"
    /\ drained[2].path = "b"
    /\ ilist = <<>>

\* The rescan handed (p, k) to handle_change, which went on to FileHandler.
Synthesized(p, k) ==
    /\ hc'["rescan"].pc = "exec"
    /\ hc'["rescan"].path = p
    /\ hc'["rescan"].kind = k

\* Both direct calls were rescans and the first met no failure.
RescannedTwice(cs, note) ==
    /\ Len(cs) = 2
    /\ cs[1].op = "rescan" /\ cs[2].op = "rescan"
    /\ note = "clean"

\* C9: a rescan visiting a path synthesizes a create for an existing file with
\* no Journal entry, an update for one whose signature differs from its entry,
\* a delete for an entry whose source is missing, and nothing for a file that
\* matches its entry; a second rescan right after a fully successful one, over
\* an unchanged source tree, invokes no FileHandler operation and mutates
\* neither the Journal nor the destination.
RescanSynthesisIdempotent ==
    [][/\ RescanVisit =>
            LET p == Head(todo)
                f == fs[p]
                e == journal[p]
            IN  /\ (f.exists /\ e = NoEntry) => Synthesized(p, "create")
                /\ (f.exists /\ e # NoEntry /\ e # Sig(f))
                      => Synthesized(p, "update")
                /\ (~f.exists /\ e # NoEntry) => Synthesized(p, "delete")
                /\ (f.exists /\ e = Sig(f)) => hc'["rescan"] = Idle
                /\ (~f.exists /\ e = NoEntry) => hc'["rescan"] = Idle
       /\ RescannedTwice(calls', first_note') =>
            /\ hc'["rescan"].pc \in {"idle", "compare"}
            /\ journal' = journal /\ dest' = dest /\ dirty' = dirty]_vars

RescanSynthesisIdempotentWitness ==
    /\ RescannedTwice(calls, first_note)
    /\ main_pc = "direct"
    /\ dirty
    /\ \E p \in Paths :
          fs[p].exists /\ fs[p].ver = MaxVer
          /\ journal[p] = Sig(fs[p]) /\ dest[p] = Content(fs[p])
          /\ snapshot[p] \notin {NoEntry, Sig(fs[p])}

\* The tasks that hold the RwLock for writing: inside a flush, or inside the
\* upsert or remove of a handle_change.
Writers ==
    {t \in {"interval", "final"} \cup Callers :
        \/ t = "interval" /\ interval_pc = "flushing"
        \/ t = "final" /\ main_pc = "final_flush"
        \/ t \in Callers /\ hc[t].pc = "write"}

\* C16: in every interleaving of the Worker, the rescan, the flush task and the
\* final flush, at most one task holds the Journal for writing and no task
\* reads it meanwhile; a step that changes the entries, the dirty flag or the
\* snapshot, and a step that reads the Journal, is taken only while no other
\* task holds it for writing; readers exclude each other never.
ReaderWriterDiscipline ==
    [][SameProcess =>
        /\ Cardinality(Writers') <= 1
        /\ Writers' # {} => Readers' = {}
        /\ (lock' # "none") <=> (Writers' = {lock'})
        /\ (Writers' # Writers /\ Writers' # {}) =>
              (Writers = {} /\ Readers = {})
        /\ (journal' # journal \/ dirty' # dirty \/ snapshot' # snapshot) =>
              /\ Readers = {}
              /\ Writers = {lock} /\ Writers' = {}
        /\ (IntervalCheck \/ RescanVisit \/ WorkerTake) => Writers = {}
      ]_vars

\* C16 witness: the Worker's handle_change holds the Journal for its upsert
\* while the flush task, which has read the flag as dirty, waits for the
\* write lock.
ReaderWriterDisciplineWitness ==
    /\ hc["worker"].pc = "write" /\ lock = "worker"
    /\ interval_pc = "want_write" /\ dirty

\* A caller's handle_change records its finished operation in this step.
RecordStep == \E c \in Callers : hc[c].pc = "write" /\ hc'[c].pc = "idle"

\* C11: the dirty flag is set by every upsert or remove and by nothing else;
\* it is cleared only by a successful flush, which writes the whole current
\* mapping to the snapshot; so whenever the flag is clear the snapshot holds
\* exactly the entries in memory: nothing was inserted, updated or removed
\* since the last successful flush (or since the Journal was loaded).
DirtyTracksMutations ==
    [][SameProcess =>
        /\ (journal' # journal \/ RecordStep) => dirty'
        /\ (~dirty /\ dirty') => RecordStep
        /\ (dirty /\ ~dirty') =>
              /\ Writers # {} /\ Writers' = {}
              /\ snapshot' = journal /\ journal' = journal
        /\ (IntervalFlushOk \/ FinalFlushOk) => (~dirty' /\ snapshot' = journal)
        /\ ~dirty' => snapshot' = journal'
      ]_vars

\* C11 witness: the Journal was flushed with an entry and the entry has been
\* changed since: the flag is set and the flush task is idle.
DirtyTracksMutationsWitness ==
    /\ dirty /\ interval_pc = "select" /\ main_pc = "loop"
    /\ \E p \in Paths : snapshot[p] # NoEntry /\ journal[p] # snapshot[p]

\* C13: when the final flush fails main panics: the process ends in a fatal
\* state, never in the state of a successful exit, the snapshot is left as it
\* was and no flush follows; a successful exit is reached only through a final
\* flush that wrote the snapshot.
FinalFlushFailureFatal ==
    [][SameProcess =>
        /\ FinalFlushErr =>
              main_pc' = "panicked" /\ snapshot' = snapshot /\ dirty' = dirty
        /\ (main_pc' = "panicked" /\ main_pc # "panicked") =>
              main_pc = "final_flush"
        /\ main_pc = "panicked" =>
              /\ main_pc' = "panicked" /\ final_flushes' = final_flushes
              /\ lock' = "none" /\ snapshot' = snapshot
        /\ (main_pc' = "done" /\ main_pc # "done") =>
              main_pc = "final_flush" /\ snapshot' = journal
      ]_vars

\* C13 witness: main has panicked in the final flush of a dirty Journal whose
\* entries the snapshot does not hold.
FinalFlushFailureFatalWitness ==
    /\ main_pc = "panicked" /\ final_flushes = 1
    /\ dirty /\ snapshot # journal

\* C19: once the final flush has started the Worker, the rescan and the flush
\* task have finished, so no upsert, remove or periodic flush happens any
\* more; after a successful final flush the snapshot equals the Journal in
\* memory and stays so until the process exits.
NoMutationAfterFinalFlush ==
    [][SameProcess =>
        /\ main_pc \in {"final_flush", "done", "panicked"} =>
              /\ journal' = journal
              /\ \A c \in Callers : hc'[c].pc = "idle"
              /\ todo' = <<>>
              /\ interval_pc' = "exited"
              /\ worker_pc' \in {"stopped", "failed"}
              /\ lock' \in {"none", "final"}
              /\ snapshot' # snapshot => main_pc = "final_flush"
        /\ main_pc' = "done" => (snapshot' = journal' /\ ~dirty')
      ]_vars

\* C19 witness: main has returned after a final flush that wrote entries the
\* snapshot did not hold when the shutdown began.
NoMutationAfterFinalFlushWitness ==
    /\ main_pc = "done" /\ ~restarted
    /\ \E p \in Paths : journal[p] = MaxVer /\ snapshot[p] = journal[p]
    /\ worker_pc = "failed"

\* C12: a failed periodic flush is only logged: the flush task goes back to
\* its select!, the Journal, its dirty flag and the snapshot stay as they
\* were, main, the Worker and the cancellation token are not touched; the
\* flag stays set until a flush succeeds, so the task, which ends only on
\* cancellation, flushes again at its next tick (all this as long as no
\* signal ends the process).
PeriodicFlushFailureLogged ==
    [][SameProcess =>
       /\ IntervalFlushErr =>
            /\ interval_pc' = "select" /\ dirty' /\ periodic_failed'
            /\ UNCHANGED <<main_pc, worker_pc, cancel, journal, snapshot>>
       /\ periodic_failed' => dirty'
       /\ (periodic_failed /\ ~periodic_failed') => snapshot' = journal
       /\ (periodic_failed /\ interval_pc = "check" /\ interval_pc' # "check")
            => interval_pc' = "want_write"
       /\ (periodic_failed /\ interval_pc = "want_write"
             /\ interval_pc' # "want_write") => interval_pc' = "flushing"
       /\ (interval_pc' = "exited" /\ interval_pc # "exited") =>
            (cancel /\ interval_pc = "select")
      ]_vars

\* C12 witness: after a failed periodic flush the task is flushing again
\* while main is still in its loop.
PeriodicFlushFailureLoggedWitness ==
    /\ periodic_failed /\ interval_pc = "flushing" /\ lock = "interval"
    /\ main_pc = "loop" /\ ~cancel

\* C14: when send_message returns Err main breaks out of its loop at once:
\* the message is dropped, main never returns to the loop, hands no further
\* message to the Worker and starts no further rescan, and its next step is
\* cancel.cancel(), the head of the shutdown sequence.
SendErrorStopsLoop ==
    [][SameProcess =>
        /\ SendMessageErr =>
              main_pc' = "shutdown" /\ exit_cause' = "send_err"
        /\ (main_pc = "send" /\ worker_pc = "failed") =>
              main_pc' \in {"send", "shutdown"}
        /\ exit_cause' = "send_err" =>
              (main_pc' = "shutdown" /\ ~cancel' /\ sending' = <<>>)
        /\ exit_cause = "send_err" =>
              (main_pc' = "shutdown" \/ (main_pc' = "join_interval" /\ cancel'))
        /\ LeftLoop =>
              /\ LeftLoop'
              /\ sending' = <<>> /\ rx' = rx
              /\ inbox' = <<>> /\ hc'["worker"] = Idle
              /\ todo' = <<>> /\ hc'["rescan"] = Idle
      ]_vars

\* C14 witness: main has left the loop on a send error while further events
\* wait in the channel.
SendErrorStopsLoopWitness ==
    /\ exit_cause = "send_err" /\ main_pc = "shutdown"
    /\ worker_pc = "failed" /\ rx # <<>>

\* C15: the events reach the Worker in the order of their emission and one at
\* a time: the channel holds them in emission order, main hands over event
\* n + 1 only after event n (and only once the Worker has handled event n),
\* the Worker takes them in that order, and it takes the next one only when
\* the handling of the one before is over, its Journal update included
\* (within one life of the process).
MessagesInOrder ==
    [][SameProcess =>
       /\ \A i \in 1..Len(rx') : rx'[i].seq = emitted' - Len(rx') + i
       /\ Len(sending') <= 1 /\ Len(inbox') <= 1
       /\ handed' # handed =>
            /\ handed' = handed + 1
            /\ taken = handed /\ inbox = <<>>
            /\ hc["worker"].pc = "idle"
       /\ taken' # taken =>
            /\ taken' = taken + 1 /\ taken' = handed
            /\ hc["worker"].pc = "idle"
       /\ hc'["worker"].pc = "exec" =>
            (hc["worker"].pc = "exec" \/ taken' # taken)
      ]_vars

\* C15 witness: the Worker is recording the second event, main waits in
\* send_message and the third event waits in the channel.
MessagesInOrderWitness ==
    /\ emitted = 3 /\ handed = 2 /\ taken = 2
    /\ hc["worker"].pc = "record"
    /\ Len(rx) = 1 /\ rx[1].seq = 3

\* main is before its loop: the watcher is installed, the startup rescan has
\* not begun, is running, or has just returned.
BeforeLoop == main_pc \in {"startup", "startup_rescan", "spawn"}

\* C20: the watcher is installed before the startup rescan begins and no live
\* event is handed to the Worker before that rescan has returned: until main
\* enters its loop every event emitted so far waits in the channel, in
\* emission order, and the Worker handles nothing; while main receives, no
\* event is lost between the watcher and the Worker.
StartupRescanBeforeEvents ==
    /\ BeforeLoop =>
          /\ Len(rx) = emitted
          /\ handed = 0 /\ taken = 0
          /\ sending = <<>> /\ inbox = <<>>
          /\ hc["worker"].pc = "idle"
    /\ \A i \in 1..Len(rx) : rx[i].seq = emitted - Len(rx) + i
    /\ Receiving => handed + Len(sending) + Len(rx) = emitted
    /\ Rescanning /\ main_pc = "startup_rescan" => interval_pc = "unspawned"

\* C20 witness: the startup rescan has returned and two events emitted
\* meanwhile wait in the channel.
StartupRescanBeforeEventsWitness ==
    /\ main_pc = "spawn" /\ call_note = "disturbed"
    /\ emitted = 2 /\ Len(rx) = 2
    /\ \E p \in Paths : journal[p] # NoEntry

\* C18: once cancellation is signalled the flush task eventually leaves its
\* loop and ends (or the whole process was ended by a signal meanwhile); from
\* then on it takes no tick, no lock and writes no snapshot; and the join of
\* main can then return.
CancelEndsFlushTask ==
    /\ cancel ~> (interval_pc = "exited" \/ main_pc = "down")
    /\ [][(SameProcess /\ interval_pc = "exited") =>
            /\ interval_pc' = "exited" /\ lock' # "interval"
            /\ snapshot' # snapshot => main_pc = "final_flush"]_vars
    /\ []((main_pc = "join_interval" /\ interval_pc = "exited")
            => ENABLED JoinInterval)

\* C18 witness: the task has ended on cancellation and left the Journal
\* dirty; main is about to return from the join.
CancelEndsFlushTaskWitness ==
    /\ cancel /\ interval_pc = "exited" /\ main_pc = "join_interval"
    /\ dirty /\ lock = "none"

\* C17: a backlog of events never starves the periodic rescan: whenever a
\* tick of the rescan timer is ready and main has not left its loop, a rescan
\* eventually runs (or main leaves the loop, or a signal ends the process),
\* whatever waits in the channel and however many events keep arriving.
RescanNotStarved ==
    (tick_due /\ InLoop) ~> (main_pc = "rescan" \/ LeftLoop \/ main_pc = "down")

\* C17 witness: a periodic rescan runs while the channel is full.
RescanNotStarvedWitness ==
    /\ main_pc = "rescan" /\ hc["rescan"].pc = "compare"
    /\ Len(rx) = MaxQueue /\ ~tick_due
====
